---- MODULE Spec2Model ----
(***************************************************************************)
(* INI-Parser (CatIsNotFound/INI-Parser): the header INI-Parser.h, classes *)
(* IniParser and IniParserX, as found in src/Demo/Demo.cpp lines 67-640.   *)
(*                                                                         *)
(* A std::string is a sequence of one-character strings.  Positions are    *)
(* 0-based as in C++; std::string::npos is NPOS.                           *)
(***************************************************************************)
EXTENDS Integers, Sequences, FiniteSets, TLC

VARIABLES
    cls,         \* dynamic type of the parser objects: "IniParser" or "IniParserX"
    builder,     \* per object: IniParser::builder, section -> (key -> value)
    arrays,      \* per object: IniParserX::arrays, "section/key" -> elements
    connection,  \* per object: IniParserX::connection, parent -> children
    filePath,    \* per object: IniParser::filePath
    section,     \* `static std::string section` of parse_inline (one per class)
    disk,        \* the file system: path -> sequence of lines
    pending,     \* per object: lines of a running load_ini_file not yet read
    inp,         \* the input a behaviour is about (a line, a text, two paths)
    last,        \* the last call: its name, arguments, outcome and result
    loads,       \* number of load_ini_file calls made so far
    pc           \* position of the behaviour

vars == <<cls, builder, arrays, connection, filePath, section, disk, pending,
          inp, last, loads, pc>>

(***************************************************************************)
(* Bounds of the model.                                                    *)
(***************************************************************************)
MaxLineLen == 5      \* longest line of the single-line specification
MaxLoads == 2        \* load_ini_file calls per behaviour
MaxTextLines == 3    \* longest text of the round-trip specification
MaxLaterLen == 3     \* longest assignment line tried after a header

(***************************************************************************)
(* std::string                                                             *)
(***************************************************************************)
\* size_t arithmetic wraps; TLC integers are 32 bits wide, so size_t is
\* modelled 30 bits wide: every modelled string is far shorter than 2^30,
\* which is all the code's wrap-arounds depend on.
SizeBits == 30
SizeMod == 2 ^ SizeBits
NPOS == SizeMod - 1

SizeSub(a, b) == (a - b + SizeMod) % SizeMod
SizeAdd(a, b) == (a + b) % SizeMod

Min(a, b) == IF a < b THEN a ELSE b

\* s.find(c, from)
FindFrom(s, c, from) ==
    IF \E i \in (from + 1)..Len(s) : s[i] = c
    THEN (CHOOSE i \in (from + 1)..Len(s) :
              s[i] = c /\ \A j \in (from + 1)..(i - 1) : s[j] # c) - 1
    ELSE NPOS

\* s.find(c)
Find(s, c) == FindFrom(s, c, 0)

\* s.find("[]")
FindBrackets(s) ==
    IF \E i \in 1..(Len(s) - 1) : s[i] = "[" /\ s[i + 1] = "]"
    THEN (CHOOSE i \in 1..(Len(s) - 1) :
              /\ s[i] = "[" /\ s[i + 1] = "]"
              /\ \A j \in 1..(i - 1) : ~(s[j] = "[" /\ s[j + 1] = "]")) - 1
    ELSE NPOS

\* s.substr(pos, count) throws std::out_of_range when pos > s.size()
SubstrThrows(s, pos) == pos > Len(s)

\* s.substr(pos, count), for pos <= s.size(): count is clamped to the rest
Substr(s, pos, count) == SubSeq(s, pos + 1, pos + Min(count, Len(s) - pos))

\* s.substr(pos)
SubstrFrom(s, pos) == Substr(s, pos, NPOS)

\* s.find_first_not_of(' ')
FindFirstNotSpace(s) ==
    IF \E i \in 1..Len(s) : s[i] # " "
    THEN (CHOOSE i \in 1..Len(s) : s[i] # " " /\ \A j \in 1..(i - 1) : s[j] = " ") - 1
    ELSE NPOS

\* s.find_last_not_of(' ')
FindLastNotSpace(s) ==
    IF \E i \in 1..Len(s) : s[i] # " "
    THEN (CHOOSE i \in 1..Len(s) : s[i] # " " /\ \A j \in (i + 1)..Len(s) : s[j] = " ") - 1
    ELSE NPOS

\* IniParser::strip throws std::out_of_range (from substr) on such a string
StripThrows(s) == SubstrThrows(s, FindFirstNotSpace(s))

\* IniParser::strip
strip(s) ==
    LET st == FindFirstNotSpace(s)
        ed == FindLastNotSpace(s)
    IN  Substr(s, st, SizeAdd(SizeSub(ed, st), 1))

\* IniParserX::get_array_name
get_array_name(old_name) ==
    LET pos == FindBrackets(old_name)
    IN  IF pos # NPOS THEN Substr(old_name, 0, pos) ELSE old_name

(***************************************************************************)
(* std::unordered_map                                                      *)
(***************************************************************************)
EmptyMap == <<>>

\* m[k], inserting a default-constructed value when k is absent
MapAt(m, k, dflt) == IF k \in DOMAIN m THEN m[k] ELSE dflt

\* m[k] = v
MapPut(m, k, v) == [x \in DOMAIN m \cup {k} |-> IF x = k THEN v ELSE m[x]]

\* m.erase(k)
MapErase(m, k) == [x \in DOMAIN m \ {k} |-> m[x]]

\* builder[sec][key] = value
BuilderPut(b, sec, key, value) ==
    MapPut(b, sec, MapPut(MapAt(b, sec, EmptyMap), key, value))

\* section + "/" + key
Qualified(sec, key) == sec \o <<"/">> \o key

(***************************************************************************)
(* parse_inline: one line of the file.  A parser object is a record        *)
(* [builder, arrays, connection]; the result adds the static section and   *)
(* the outcome: "true", "false", or "out_of_range" when strip throws.      *)
(***************************************************************************)
Obj(b, a, c) == [builder |-> b, arrays |-> a, connection |-> c]

Parsed(o, sec, res) ==
    [builder |-> o.builder, arrays |-> o.arrays, connection |-> o.connection,
     section |-> sec, res |-> res]

\* the key text and the value text of an assignment line, before strip
RawKey(buffer) == Substr(buffer, 0, Find(buffer, "="))

RawValue(buffer) ==
    LET sp == Find(buffer, "=")
        sq == Find(buffer, ";")
    IN  IF sq # NPOS
        THEN Substr(buffer, sp + 1, SizeSub(SizeSub(sq, sp), 1))
        ELSE SubstrFrom(buffer, sp + 1)

\* the section name of a header line
HeaderName(buffer) ==
    LET st == Find(buffer, "[")
    IN  Substr(buffer, st + 1, SizeSub(SizeSub(Find(buffer, "]"), st), 1))

\* IniParser::parse_inline
BaseParseInline(o, sec, buffer) ==
    IF Find(buffer, ";") = 0 THEN Parsed(o, sec, "false")
    ELSE IF Find(buffer, "=") # NPOS
    THEN IF StripThrows(RawKey(buffer)) \/ StripThrows(RawValue(buffer))
         THEN Parsed(o, sec, "out_of_range")
         ELSE Parsed(Obj(BuilderPut(o.builder, sec, strip(RawKey(buffer)),
                                    strip(RawValue(buffer))),
                         o.arrays, o.connection),
                     sec, "true")
    ELSE IF Find(buffer, "[") # NPOS
    THEN Parsed(o, HeaderName(buffer), "true")
    ELSE Parsed(o, sec, "false")

\* connection[child].push_back(parent): the relation recorded backwards
ConnectSwapped(c, parent, child) == MapPut(c, child, Append(MapAt(c, child, <<>>), parent))

\* connection[parent].push_back(child)
Connect(c, parent, child) == MapPut(c, parent, Append(MapAt(c, parent, <<>>), child))

\* IniParserX::parse_inline
XParseInline(o, sec, buffer) ==
    IF Find(buffer, ";") = 0 THEN Parsed(o, sec, "false")
    ELSE IF Find(buffer, "=") # NPOS
    THEN IF StripThrows(RawKey(buffer)) \/ StripThrows(RawValue(buffer))
         THEN Parsed(o, sec, "out_of_range")
         ELSE LET key == strip(RawKey(buffer))
                  value == strip(RawValue(buffer))
                  point == FindBrackets(key)
                  k == Qualified(sec, Substr(key, 0, point))
                  arr == IF point # NPOS
                         THEN MapPut(o.arrays, k, Append(MapAt(o.arrays, k, <<>>), value))
                         ELSE o.arrays
              IN  Parsed(Obj(BuilderPut(o.builder, sec, key, value), arr, o.connection),
                         sec, "true")
    ELSE IF Find(buffer, "[") # NPOS
    THEN LET tmp == HeaderName(buffer)
         IN  IF Len(tmp) > 0 /\ tmp[1] = "."
             THEN Parsed(Obj(o.builder, o.arrays,
                             Connect(o.connection, sec, SubstrFrom(tmp, 1))),
                         sec \o tmp, "false")
             ELSE LET point == Find(tmp, ".")
                  IN  IF point # NPOS
                      THEN Parsed(Obj(o.builder, o.arrays,
                                      Connect(o.connection, Substr(tmp, 0, point),
                                              SubstrFrom(tmp, point + 1))),
                                  tmp, "false")
                      ELSE Parsed(o, tmp, "false")
    ELSE Parsed(o, sec, "false")

\* virtual dispatch of parse_inline
ParseInline(c, o, sec, buffer) ==
    IF c = "IniParserX" THEN XParseInline(o, sec, buffer)
    ELSE BaseParseInline(o, sec, buffer)

(***************************************************************************)
(* load_ini_file on an open file: getline / parse_inline until the end of  *)
(* the file, or until parse_inline throws.                                 *)
(***************************************************************************)
RECURSIVE LoadLines(_, _, _, _)
LoadLines(c, o, sec, lines) ==
    IF lines = <<>> THEN Parsed(o, sec, "true")
    ELSE LET r == ParseInline(c, o, sec, Head(lines))
         IN  IF r.res = "out_of_range" THEN r
             ELSE LoadLines(c, Obj(r.builder, r.arrays, r.connection),
                            r.section, Tail(lines))

(***************************************************************************)
(* The accessors and mutators.  Each takes the object and yields           *)
(* [obj, res, ret]: the object afterwards, "ok" or the exception thrown,   *)
(* and the value returned (NoRet when there is none).                      *)
(***************************************************************************)
NoRet == <<"<none>">>

Ret(o, res, ret) == [obj |-> o, res |-> res, ret |-> ret]

\* IniParser::include
include(b, key) ==
    LET x == Find(key, "/")
    IN  IF x = NPOS THEN key \in DOMAIN b
        ELSE LET sec == Substr(key, 0, x)
                 subsection == SubstrFrom(key, x + 1)
             IN  IF sec \notin DOMAIN b THEN FALSE
                 ELSE subsection \in DOMAIN b[sec]

\* IniParser::all_sections (as a set: the order is the hash table's)
all_sections(b) == DOMAIN b

\* IniParserX::is_array(key)
is_array1(a, key) == get_array_name(key) \in DOMAIN a

\* IniParserX::is_array(section, key)
is_array2(a, sec, key) == Qualified(sec, get_array_name(key)) \in DOMAIN a

\* builder[section][subsection], which inserts an empty string when absent
BuilderTouch(b, sec, key) ==
    BuilderPut(b, sec, key, MapAt(MapAt(b, sec, EmptyMap), key, <<>>))

\* return builder[section][subsection];
ReturnRef(o, sec, key) ==
    LET b == BuilderTouch(o.builder, sec, key)
    IN  Ret(Obj(b, o.arrays, o.connection), "ok", b[sec][key])

\* IniParser::value(key)
BaseValue1(o, key) ==
    LET x == Find(key, "/")
    IN  IF x = NPOS THEN Ret(o, "KeyNotFound", NoRet)
        ELSE IF ~include(o.builder, key) THEN Ret(o, "KeyNotFound", NoRet)
        ELSE ReturnRef(o, Substr(key, 0, x), SubstrFrom(key, x + 1))

\* IniParserX::value(key)
XValue1(o, key) ==
    LET x == Find(key, "/")
    IN  IF x = NPOS THEN Ret(o, "KeyNotFound", NoRet)
        ELSE IF ~include(o.builder, key) THEN Ret(o, "KeyNotFound", NoRet)
        ELSE IF is_array1(o.arrays, key) THEN Ret(o, "KeyIsArray", NoRet)
        ELSE ReturnRef(o, Substr(key, 0, x), SubstrFrom(key, x + 1))

\* IniParser::value(section, key)
BaseValue2(o, sec, key) ==
    IF ~include(o.builder, sec) THEN Ret(o, "KeyNotFound", NoRet)
    ELSE IF ~include(o.builder, Qualified(sec, key)) THEN Ret(o, "KeyNotFound", NoRet)
    ELSE ReturnRef(o, sec, key)

\* IniParserX::value(section, key)
XValue2(o, sec, key) ==
    IF ~include(o.builder, sec) THEN Ret(o, "KeyNotFound", NoRet)
    ELSE IF ~include(o.builder, Qualified(sec, key)) THEN Ret(o, "KeyNotFound", NoRet)
    ELSE IF is_array1(o.arrays, Qualified(sec, key)) THEN Ret(o, "KeyIsArray", NoRet)
    ELSE ReturnRef(o, sec, key)

\* IniParser::operator[] without the test of the section
BaseIndexCreatesSection(o, key) ==
    LET x == Find(key, "/")
    IN  IF x = NPOS THEN Ret(o, "KeyNotFound", NoRet)
        ELSE ReturnRef(o, Substr(key, 0, x), SubstrFrom(key, x + 1))

\* IniParser::operator[]
BaseIndex(o, key) ==
    LET x == Find(key, "/")
    IN  IF x = NPOS THEN Ret(o, "KeyNotFound", NoRet)
        ELSE IF ~include(o.builder, Substr(key, 0, x)) THEN Ret(o, "KeyNotFound", NoRet)
        ELSE ReturnRef(o, Substr(key, 0, x), SubstrFrom(key, x + 1))

\* IniParserX::operator[] that reaches builder[section][subsection] before
\* it tests is_array
XIndexTouchesFirst(o, key) ==
    LET x == Find(key, "/")
    IN  IF x = NPOS THEN Ret(o, "KeyNotFound", NoRet)
        ELSE IF ~include(o.builder, Substr(key, 0, x)) THEN Ret(o, "KeyNotFound", NoRet)
        ELSE IF is_array1(o.arrays, key)
        THEN Ret(ReturnRef(o, Substr(key, 0, x), SubstrFrom(key, x + 1)).obj,
                 "KeyIsArray", NoRet)
        ELSE ReturnRef(o, Substr(key, 0, x), SubstrFrom(key, x + 1))

\* IniParserX::operator[]
XIndex(o, key) ==
    LET x == Find(key, "/")
    IN  IF x = NPOS THEN Ret(o, "KeyNotFound", NoRet)
        ELSE IF ~include(o.builder, Substr(key, 0, x)) THEN Ret(o, "KeyNotFound", NoRet)
        ELSE IF is_array1(o.arrays, key) THEN Ret(o, "KeyIsArray", NoRet)
        ELSE ReturnRef(o, Substr(key, 0, x), SubstrFrom(key, x + 1))

\* add_key that raises KeyAlreadyExist after it has stored the value
add_keyOverwrites(o, sec, key, value) ==
    IF FindBrackets(key) # NPOS THEN Ret(o, "CanNotArray", NoRet)
    ELSE IF ~include(o.builder, sec)
    THEN Ret(Obj(BuilderPut(o.builder, sec, key, value), o.arrays, o.connection),
             "ok", NoRet)
    ELSE IF ~include(o.builder, Qualified(sec, key))
    THEN Ret(Obj(BuilderPut(o.builder, sec, key, value), o.arrays, o.connection),
             "ok", NoRet)
    ELSE Ret(Obj(BuilderPut(o.builder, sec, key, value), o.arrays, o.connection),
             "KeyAlreadyExist", NoRet)

\* IniParser::add_key, and IniParserX::add_key, which repeats it
add_key(o, sec, key, value) ==
    IF FindBrackets(key) # NPOS THEN Ret(o, "CanNotArray", NoRet)
    ELSE IF ~include(o.builder, sec)
    THEN Ret(Obj(BuilderPut(o.builder, sec, key, value), o.arrays, o.connection),
             "ok", NoRet)
    ELSE IF ~include(o.builder, Qualified(sec, key))
    THEN Ret(Obj(BuilderPut(o.builder, sec, key, value), o.arrays, o.connection),
             "ok", NoRet)
    ELSE Ret(o, "KeyAlreadyExist", NoRet)

\* EraseKey without the removal of a section that became empty
EraseKeyKeepSection(b, sec, key) ==
    MapPut(b, sec, MapErase(MapAt(b, sec, EmptyMap), key))

\* builder[section].erase(key); if (builder[section].empty()) builder.erase(section);
EraseKey(b, sec, key) ==
    LET m == MapErase(MapAt(b, sec, EmptyMap), key)
    IN  IF DOMAIN m = {} THEN MapErase(b, sec) ELSE MapPut(b, sec, m)

\* IniParser::remove_key, and IniParserX::remove_key, which repeats it
remove_key(o, sec, key) ==
    IF include(o.builder, Qualified(sec, key))
    THEN Ret(Obj(EraseKey(o.builder, sec, key), o.arrays, o.connection), "ok", NoRet)
    ELSE Ret(o, "KeyNotFound", NoRet)

\* IniParserX::add_array, for a non-empty array
add_array(o, sec, key, array) ==
    LET real_key == get_array_name(key)
        k == Qualified(sec, real_key)
    IN  IF ~include(o.builder, k \o <<"[", "]">>) /\ ~include(o.builder, k)
        THEN Ret(Obj(BuilderPut(o.builder, sec, key \o <<"[", "]">>, array[Len(array)]),
                     MapPut(o.arrays, k, array), o.connection),
                 "ok", NoRet)
        ELSE Ret(o, "KeyAlreadyExist", NoRet)

\* IniParserX::remove_array
remove_array(o, sec, key) ==
    LET real_key == get_array_name(key)
    IN  IF is_array2(o.arrays, sec, key)
        THEN Ret(Obj(EraseKey(o.builder, sec, key \o <<"[", "]">>),
                     MapErase(o.arrays, Qualified(sec, real_key)), o.connection),
                 "ok", NoRet)
        ELSE Ret(o, "KeyNotArray", NoRet)

\* IniParser::all_keys (as a set: the order is the hash table's);
\* builder.at(section) throws std::out_of_range when the section is absent
all_keys(o, sec) ==
    IF ~include(o.builder, sec) THEN Ret(o, "KeyNotFound", NoRet)
    ELSE IF sec \notin DOMAIN o.builder THEN Ret(o, "out_of_range", NoRet)
    ELSE Ret(o, "ok", DOMAIN o.builder[sec])

\* IniParserX::size_of_array(key); arrays.at throws std::out_of_range
size_of_array1(o, key) ==
    LET real_key == get_array_name(key)
    IN  IF ~is_array1(o.arrays, real_key) THEN Ret(o, "KeyNotArray", NoRet)
        ELSE IF key \notin DOMAIN o.arrays THEN Ret(o, "out_of_range", NoRet)
        ELSE Ret(o, "ok", Len(o.arrays[key]))

\* IniParserX::size_of_array(section, key)
size_of_array2(o, sec, key) ==
    LET k == Qualified(sec, get_array_name(key))
    IN  IF ~is_array1(o.arrays, k) THEN Ret(o, "KeyNotArray", NoRet)
        ELSE IF k \notin DOMAIN o.arrays THEN Ret(o, "out_of_range", NoRet)
        ELSE Ret(o, "ok", Len(o.arrays[k]))

\* arrays.at(k).at(index): both throw std::out_of_range
ArrayAt(o, k, index) ==
    IF k \notin DOMAIN o.arrays THEN Ret(o, "out_of_range", NoRet)
    ELSE IF index >= Len(o.arrays[k]) THEN Ret(o, "out_of_range", NoRet)
    ELSE Ret(o, "ok", o.arrays[k][index + 1])

\* IniParserX::value_of_array(section, key, index)
value_of_array2(o, sec, key, index) ==
    LET k == Qualified(sec, get_array_name(key))
    IN  IF ~is_array1(o.arrays, k) THEN Ret(o, "KeyNotArray", NoRet)
        ELSE ArrayAt(o, k, index)

\* IniParserX::value_of_array(key, index)
value_of_array1(o, key, index) ==
    LET real_key == get_array_name(key)
    IN  IF ~is_array1(o.arrays, real_key) THEN Ret(o, "KeyNotArray", NoRet)
        ELSE ArrayAt(o, real_key, index)

(***************************************************************************)
(* save_ini_file.  The order of the sections and of the keys of a section  *)
(* is the iteration order of the unordered_maps: so and ko enumerate them. *)
(***************************************************************************)
Perms(S) == {f \in [1..Cardinality(S) -> S] : \A i, j \in 1..Cardinality(S) : f[i] = f[j] => i = j}

\* the orders in which builder b can be iterated
KeyOrders(b) ==
    {ko \in [DOMAIN b -> UNION {Perms(DOMAIN b[s]) : s \in DOMAIN b}] :
        \A s \in DOMAIN b : ko[s] \in Perms(DOMAIN b[s])}

\* "key = value"
AssignLine(key, value) == key \o <<" ", "=", " ">> \o value

\* what save_ini_file has written, and "ok" or the exception that ended it
Written(lines, res) == [lines |-> lines, res |-> res]

\* IniParserX::save_ini_file, one key of a section
XKeyLines(o, sec, key) ==
    IF FindBrackets(key) # NPOS
    THEN LET n == size_of_array2(o, sec, key)
             k == Qualified(sec, get_array_name(key))
         IN  IF n.res # "ok" THEN Written(<<>>, n.res)
             ELSE Written([idx \in 1..n.ret |-> AssignLine(key, o.arrays[k][idx])], "ok")
    ELSE Written(<<AssignLine(key, o.builder[sec][key])>>, "ok")

\* IniParser::save_ini_file, one key of a section
BaseKeyLines(o, sec, key) == Written(<<AssignLine(key, o.builder[sec][key])>>, "ok")

\* virtual dispatch of save_ini_file
KeyLines(c, o, sec, key) ==
    IF c = "IniParserX" THEN XKeyLines(o, sec, key) ELSE BaseKeyLines(o, sec, key)

\* the keys of one section, in the order keys
RECURSIVE KeysLines(_, _, _, _)
KeysLines(c, o, sec, keys) ==
    IF keys = <<>> THEN Written(<<>>, "ok")
    ELSE LET r == KeyLines(c, o, sec, Head(keys))
         IN  IF r.res # "ok" THEN r
             ELSE LET rest == KeysLines(c, o, sec, Tail(keys))
                  IN  Written(r.lines \o rest.lines, rest.res)

\* save_ini_file: the sections in the order secs, the keys of section s in
\* the order ko[s]; an exception leaves the lines written before it
RECURSIVE SectionsLines(_, _, _, _)
SectionsLines(c, o, secs, ko) ==
    IF secs = <<>> THEN Written(<<>>, "ok")
    ELSE LET header == <<<<"[">> \o Head(secs) \o <<"]">>>>
             r == KeysLines(c, o, Head(secs), ko[Head(secs)])
         IN  IF r.res # "ok" THEN Written(header \o r.lines, r.res)
             ELSE LET rest == SectionsLines(c, o, Tail(secs), ko)
                  IN  Written(header \o r.lines \o <<<<>>>> \o rest.lines, rest.res)

(***************************************************************************)
(* The objects and the inputs of the model.                                *)
(***************************************************************************)
Inst == {1, 2}
Classes == {"IniParser", "IniParserX"}

EmptyObj == Obj(EmptyMap, EmptyMap, EmptyMap)

\* object i as a record
ObjOf(i) == Obj(builder[i], arrays[i], connection[i])

NoArg == <<"<none>">>

Call(op, sec, key, arg, res, ret) ==
    [op |-> op, sec |-> sec, key |-> key, arg |-> arg, res |-> res, ret |-> ret]

\* the names and values a caller passes: plain names, with and without the
\* array suffix, or names of which some contain the separator '/' (these
\* callers use the interface of IniParser only: arraykeys are the keys passed
\* to the array operations of IniParserX; the arrays they meet come from the
\* files)
PlainNames ==
    [sections |-> {<<"s">>},
     keys |-> {<<"k">>, <<"k", "[", "]">>},
     values |-> {<<"v">>, <<"w">>},
     arraykeys |-> {<<"k">>, <<"k", "[", "]">>},
     arrays |-> {<<<<"v">>>>, <<<<"v">>, <<"w">>>>},
     indexes |-> {0, 1}]

SlashNames ==
    [sections |-> {<<"s">>, <<"s", "/", "k">>},
     keys |-> {<<"k">>, <<"k", "/", "k">>},
     values |-> {<<"v">>},
     arraykeys |-> {},
     arrays |-> {},
     indexes |-> {}]

QualifiedKeys(u) == {Qualified(s, k) : s \in u.sections, k \in u.keys}

QualifiedArrayKeys(u) == {Qualified(s, k) : s \in u.sections, k \in u.arraykeys}

\* the files on disk
FileA == <<  <<"[", "s", "]">>,  <<"k", " ", "=", " ", "v">>  >>
FileB == <<  <<"k", "[", "]", "=", "w">>,  <<"[", "t", "]">>  >>
FileC == <<  <<"k", "=", "w">>,  <<"k", "=">>  >>
Disk == [p \in {"a.ini", "b.ini", "c.ini"} |->
            IF p = "a.ini" THEN FileA ELSE IF p = "b.ini" THEN FileB ELSE FileC]

\* what every specification starts from: freshly constructed objects
\* (IniParser() / IniParserX()) in a process that has parsed nothing yet
Fresh ==
    /\ cls \in Classes
    /\ builder = [i \in Inst |-> EmptyMap]
    /\ arrays = [i \in Inst |-> EmptyMap]
    /\ connection = [i \in Inst |-> EmptyMap]
    /\ filePath = [i \in Inst |-> <<>>]
    /\ section = <<>>
    /\ pending = [i \in Inst |-> <<>>]
    /\ last = Call("construct", NoArg, NoArg, NoArg, "ok", NoRet)
    /\ loads = 0

\* object i becomes o
SetObj(i, o) ==
    /\ builder' = [builder EXCEPT ![i] = o.builder]
    /\ arrays' = [arrays EXCEPT ![i] = o.arrays]
    /\ connection' = [connection EXCEPT ![i] = o.connection]

\* a call on object i that is not a load: r is its [obj, res, ret]
Finish(i, r, op, sec, key, arg) ==
    /\ SetObj(i, r.obj)
    /\ last' = Call(op, sec, key, arg, r.res, r.ret)
    /\ UNCHANGED <<cls, filePath, section, disk, pending, inp, loads, pc>>

(***************************************************************************)
(* The public operations, on object i.                                     *)
(***************************************************************************)
\* load_ini_file(path) with set_file_path ahead of validate_file
LoadIniFileRecordsPath(i, path) ==
    /\ loads < MaxLoads
    /\ loads' = loads + 1
    /\ filePath' = [filePath EXCEPT ![i] = path]
    /\ IF path \notin DOMAIN disk
       THEN /\ last' = Call("load_ini_file", NoArg, NoArg, path, "false", NoRet)
            /\ UNCHANGED <<builder, arrays, connection, section>>
       ELSE LET r == LoadLines(cls, ObjOf(i), section, disk[path])
            IN  /\ SetObj(i, r)
                /\ section' = r.section
                /\ last' = Call("load_ini_file", NoArg, NoArg, path, r.res, NoRet)
    /\ UNCHANGED <<cls, disk, pending, inp, pc>>

\* load_ini_file(path): IniParser::load_ini_file and IniParserX::load_ini_file
LoadIniFile(i, path) ==
    /\ loads < MaxLoads
    /\ loads' = loads + 1
    /\ IF path \notin DOMAIN disk
       THEN /\ last' = Call("load_ini_file", NoArg, NoArg, path, "false", NoRet)
            /\ UNCHANGED <<builder, arrays, connection, filePath, section>>
       ELSE LET r == LoadLines(cls, ObjOf(i), section, disk[path])
            IN  /\ SetObj(i, r)
                /\ filePath' = [filePath EXCEPT ![i] = path]
                /\ section' = r.section
                /\ last' = Call("load_ini_file", NoArg, NoArg, path, r.res, NoRet)
    /\ UNCHANGED <<cls, disk, pending, inp, pc>>

AddKey(i, sec, key, value) ==
    Finish(i, add_key(ObjOf(i), sec, key, value), "add_key", sec, key, value)

RemoveKey(i, sec, key) ==
    Finish(i, remove_key(ObjOf(i), sec, key), "remove_key", sec, key, NoArg)

\* virtual dispatch of value(key)
value1(c, o, key) == IF c = "IniParserX" THEN XValue1(o, key) ELSE BaseValue1(o, key)

\* virtual dispatch of value(section, key)
value2(c, o, sec, key) ==
    IF c = "IniParserX" THEN XValue2(o, sec, key) ELSE BaseValue2(o, sec, key)

\* virtual dispatch of operator[](key)
Index(c, o, key) == IF c = "IniParserX" THEN XIndex(o, key) ELSE BaseIndex(o, key)

Value1(i, key) == Finish(i, value1(cls, ObjOf(i), key), "value", NoArg, key, NoArg)

Value2(i, sec, key) == Finish(i, value2(cls, ObjOf(i), sec, key), "value", sec, key, NoArg)

\* parser[key], read
IndexRead(i, key) == Finish(i, Index(cls, ObjOf(i), key), "operator[]", NoArg, key, NoArg)

\* parser[key] = value: operator[] and the assignment through its reference
IndexAssign(i, key, value) ==
    LET r == Index(cls, ObjOf(i), key)
        x == Find(key, "/")
        w == IF r.res = "ok"
             THEN Ret(Obj(BuilderPut(r.obj.builder, Substr(key, 0, x),
                                     SubstrFrom(key, x + 1), value),
                          r.obj.arrays, r.obj.connection), "ok", value)
             ELSE r
    IN  Finish(i, w, "operator[]=", NoArg, key, value)

AddArray(i, sec, key, array) ==
    /\ cls = "IniParserX"
    /\ Finish(i, add_array(ObjOf(i), sec, key, array), "add_array", sec, key, array)

RemoveArray(i, sec, key) ==
    /\ cls = "IniParserX"
    /\ Finish(i, remove_array(ObjOf(i), sec, key), "remove_array", sec, key, NoArg)

AllKeys(i, sec) == Finish(i, all_keys(ObjOf(i), sec), "all_keys", sec, NoArg, NoArg)

SizeOfArray1(i, key) ==
    /\ cls = "IniParserX"
    /\ Finish(i, size_of_array1(ObjOf(i), key), "size_of_array", NoArg, key, NoArg)

SizeOfArray2(i, sec, key) ==
    /\ cls = "IniParserX"
    /\ Finish(i, size_of_array2(ObjOf(i), sec, key), "size_of_array", sec, key, NoArg)

ValueOfArray1(i, key, index) ==
    /\ cls = "IniParserX"
    /\ Finish(i, value_of_array1(ObjOf(i), key, index), "value_of_array", NoArg, key, index)

ValueOfArray2(i, sec, key, index) ==
    /\ cls = "IniParserX"
    /\ Finish(i, value_of_array2(ObjOf(i), sec, key, index), "value_of_array", sec, key, index)

(***************************************************************************)
(* Spec: one parser object and its caller.                                 *)
(***************************************************************************)
Init ==
    /\ Fresh
    /\ disk = Disk
    /\ inp \in {PlainNames, SlashNames}
    /\ pc = "api"

CallLoad == pc = "api" /\ \E p \in DOMAIN Disk : LoadIniFile(1, p)

CallAddKey ==
    pc = "api" /\ \E s \in inp.sections, k \in inp.keys, v \in inp.values : AddKey(1, s, k, v)

CallRemoveKey == pc = "api" /\ \E s \in inp.sections, k \in inp.keys : RemoveKey(1, s, k)

CallValue1 == pc = "api" /\ \E q \in QualifiedKeys(inp) : Value1(1, q)

CallValue2 == pc = "api" /\ \E s \in inp.sections, k \in inp.keys : Value2(1, s, k)

\* the arguments of operator[]: qualified keys, and names without '/'
IndexKeys(u) == QualifiedKeys(u) \cup u.sections

CallIndexRead == pc = "api" /\ \E q \in IndexKeys(inp) : IndexRead(1, q)

CallIndexAssign ==
    pc = "api" /\ \E q \in IndexKeys(inp), v \in inp.values : IndexAssign(1, q, v)

CallAddArray ==
    pc = "api" /\ \E s \in inp.sections, k \in inp.arraykeys, a \in inp.arrays :
                     AddArray(1, s, k, a)

CallRemoveArray ==
    pc = "api" /\ \E s \in inp.sections, k \in inp.arraykeys : RemoveArray(1, s, k)

CallAllKeys == pc = "api" /\ \E s \in inp.sections : AllKeys(1, s)

CallSizeOfArray1 == pc = "api" /\ \E q \in QualifiedArrayKeys(inp) : SizeOfArray1(1, q)

CallSizeOfArray2 ==
    pc = "api" /\ \E s \in inp.sections, k \in inp.arraykeys : SizeOfArray2(1, s, k)

CallValueOfArray1 ==
    pc = "api" /\ \E q \in QualifiedArrayKeys(inp), n \in inp.indexes : ValueOfArray1(1, q, n)

CallValueOfArray2 ==
    pc = "api" /\ \E s \in inp.sections, k \in inp.arraykeys, n \in inp.indexes :
                     ValueOfArray2(1, s, k, n)

Next ==
    \/ CallLoad
    \/ CallAddKey
    \/ CallRemoveKey
    \/ CallValue1
    \/ CallValue2
    \/ CallIndexRead
    \/ CallIndexAssign
    \/ CallAddArray
    \/ CallRemoveArray
    \/ CallAllKeys
    \/ CallSizeOfArray1
    \/ CallSizeOfArray2
    \/ CallValueOfArray1
    \/ CallValueOfArray2

Spec == Init /\ [][Next]_vars

(***************************************************************************)
(* SpecIndex: the caller of Spec making only the calls that write: the     *)
(* loads, add_key, remove_key, operator[], add_array and remove_array.     *)
(***************************************************************************)
NextIndex ==
    \/ CallLoad
    \/ CallAddKey
    \/ CallRemoveKey
    \/ CallIndexRead
    \/ CallIndexAssign
    \/ CallAddArray
    \/ CallRemoveArray

SpecIndex == Init /\ [][NextIndex]_vars

(***************************************************************************)
(* SpecLine: a fresh parser loads a file whose last line is any line up to *)
(* MaxLineLen characters, alone or after the header [s].                   *)
(***************************************************************************)
LineChars == {"k", "=", ";", " ", "[", "]", "."}
Lines == UNION {[1..n -> LineChars] : n \in 0..MaxLineLen}
HeaderS == <<"[", "s", "]">>

InitLine ==
    /\ Fresh
    /\ inp \in {<<l>> : l \in Lines} \cup {<<HeaderS, l>> : l \in Lines}
    /\ disk = [p \in {"line.ini"} |-> inp]
    /\ pc = "line"

LoadLine ==
    /\ pc = "line"
    /\ LET r == LoadLines(cls, ObjOf(1), section, disk["line.ini"])
       IN  /\ SetObj(1, r)
           /\ filePath' = [filePath EXCEPT ![1] = "line.ini"]
           /\ section' = r.section
           /\ last' = Call("load_ini_file", NoArg, NoArg, "line.ini", r.res, NoRet)
    /\ loads' = loads + 1
    /\ pc' = "loaded"
    /\ UNCHANGED <<cls, disk, pending, inp>>

NextLine == LoadLine

SpecLine == InitLine /\ [][NextLine]_vars

\* the line SpecLine is about, and the section that is current when it is read
TheLine == inp[Len(inp)]
LineSection == IF Len(inp) = 2 THEN <<"s">> ELSE <<>>

(***************************************************************************)
(* SpecConc: two parser objects of the same class each load one file, one  *)
(* getline / parse_inline step at a time, in any interleaving.  The steps  *)
(* of the two loads share the static section of parse_inline.  A step is   *)
(* atomic here; the runs in which one load finishes before the other       *)
(* begins are runs of a single thread.                                     *)
(***************************************************************************)
InitConc ==
    /\ Fresh
    /\ disk = Disk
    /\ inp \in [Inst -> DOMAIN Disk]
    /\ pc = [i \in Inst |-> "idle"]

\* validate_file, set_file_path and the opening of the file
BeginLoad(i) ==
    /\ pc[i] = "idle"
    /\ inp[i] \in DOMAIN disk
    /\ filePath' = [filePath EXCEPT ![i] = inp[i]]
    /\ pending' = [pending EXCEPT ![i] = disk[inp[i]]]
    /\ pc' = [pc EXCEPT ![i] = "loading"]
    /\ loads' = loads + 1
    /\ UNCHANGED <<cls, builder, arrays, connection, section, disk, inp, last>>

\* one turn of `while (std::getline(file, buf)) parse_inline(buf);`
ParseStep(i) ==
    /\ pc[i] = "loading"
    /\ pending[i] # <<>>
    /\ LET r == ParseInline(cls, ObjOf(i), section, Head(pending[i]))
       IN  /\ SetObj(i, r)
           /\ section' = r.section
           /\ IF r.res = "out_of_range"
              THEN /\ pc' = [pc EXCEPT ![i] = "threw"]
                   /\ pending' = [pending EXCEPT ![i] = <<>>]
                   /\ last' = Call("load_ini_file", NoArg, NoArg, inp[i], r.res, NoRet)
              ELSE /\ pending' = [pending EXCEPT ![i] = Tail(pending[i])]
                   /\ UNCHANGED <<pc, last>>
    /\ UNCHANGED <<cls, filePath, disk, inp, loads>>

\* getline fails at the end of the file: file.close(); return true;
EndLoad(i) ==
    /\ pc[i] = "loading"
    /\ pending[i] = <<>>
    /\ pc' = [pc EXCEPT ![i] = "done"]
    /\ last' = Call("load_ini_file", NoArg, NoArg, inp[i], "true", NoRet)
    /\ UNCHANGED <<cls, builder, arrays, connection, filePath, section, disk,
                   pending, inp, loads>>

NextConc == \E i \in Inst : BeginLoad(i) \/ ParseStep(i) \/ EndLoad(i)

SpecConc == InitConc /\ [][NextConc]_vars

(***************************************************************************)
(* SpecRT: a fresh parser loads a text, saves it, and a fresh parser of a  *)
(* new process loads what was saved.                                       *)
(***************************************************************************)
RTLines == {
    <<"[", "s", "]">>,
    <<"[", ".", "t", "]">>,
    <<"k", "=", "v">>,
    <<"k", " ", "=", " ", "w", " ", ";", "k">>,
    <<"k", "[", "]", "=", "v">>,
    <<"k", "[", "]", "=", "w">>,
    <<" ", ";", "k", "=", "v">>,
    <<"]", "[", "]">>,
    <<"]", "[", "[", "]">> }

Texts == UNION {[1..n -> RTLines] : n \in 0..MaxTextLines}

InitRT ==
    /\ Fresh
    /\ inp \in Texts
    /\ disk = [p \in {"in.ini"} |-> inp]
    /\ pc = "rt_load"

RTLoad ==
    /\ pc = "rt_load"
    /\ LET r == LoadLines(cls, ObjOf(1), section, disk["in.ini"])
       IN  /\ SetObj(1, r)
           /\ section' = r.section
           /\ last' = Call("load_ini_file", NoArg, NoArg, "in.ini", r.res, NoRet)
           /\ pc' = IF r.res = "true" THEN "rt_save" ELSE "rt_load_failed"
    /\ filePath' = [filePath EXCEPT ![1] = "in.ini"]
    /\ loads' = loads + 1
    /\ UNCHANGED <<cls, disk, pending, inp>>

\* object 1: save_ini_file("out.ini")
RTSave ==
    /\ pc = "rt_save"
    /\ \E so \in Perms(DOMAIN builder[1]) : \E ko \in KeyOrders(builder[1]) :
          LET w == SectionsLines(cls, ObjOf(1), so, ko)
          IN  /\ disk' = [p \in DOMAIN disk \cup {"out.ini"} |->
                             IF p = "out.ini" THEN w.lines ELSE disk[p]]
              /\ last' = Call("save_ini_file", NoArg, NoArg, "out.ini", w.res, NoRet)
              /\ pc' = IF w.res = "ok" THEN "rt_reload" ELSE "rt_save_failed"
    /\ UNCHANGED <<cls, builder, arrays, connection, filePath, section, pending,
                   inp, loads>>

\* object 2, in a process that has parsed nothing yet: load_ini_file("out.ini")
RTReload ==
    /\ pc = "rt_reload"
    /\ LET r == LoadLines(cls, ObjOf(2), <<>>, disk["out.ini"])
       IN  /\ SetObj(2, r)
           /\ section' = r.section
           /\ last' = Call("load_ini_file", NoArg, NoArg, "out.ini", r.res, NoRet)
    /\ filePath' = [filePath EXCEPT ![2] = "out.ini"]
    /\ loads' = loads + 1
    /\ pc' = "rt_done"
    /\ UNCHANGED <<cls, disk, pending, inp>>

NextRT == RTLoad \/ RTSave \/ RTReload

SpecRT == InitRT /\ [][NextRT]_vars

(***************************************************************************)
(* SpecCtor: a parser is constructed from a path and a read_mode flag, in  *)
(* a process that may have parsed with another object before, and then     *)
(* loads files; one of the paths cannot be opened.                         *)
(***************************************************************************)
\* a path for which std::fstream(path).is_open() is false
MissingPath == "none.ini"
Paths == DOMAIN Disk \cup {MissingPath}

\* validate_file(path)
validate_file(d, path) == path \in DOMAIN d

InitCtor ==
    /\ cls \in Classes
    /\ builder = [i \in Inst |-> EmptyMap]
    /\ arrays = [i \in Inst |-> EmptyMap]
    /\ connection = [i \in Inst |-> EmptyMap]
    /\ filePath = [i \in Inst |-> ""]
    /\ section \in {<<>>, <<"t">>}
    /\ pending = [i \in Inst |-> <<>>]
    /\ last = Call("main", NoArg, NoArg, "", "ok", NoRet)
    /\ loads = 0
    /\ disk = Disk
    /\ inp \in [path : Paths, read_mode : BOOLEAN]
    /\ pc = "new"

\* IniParser(file_path, read_mode) / IniParserX(file_path, read_mode)
Construct ==
    /\ pc = "new"
    /\ IF ~validate_file(disk, inp.path) /\ inp.read_mode
       THEN /\ last' = Call("construct", NoArg, NoArg, inp.path, "FileLoadedError", NoRet)
            /\ pc' = "failed"
            /\ UNCHANGED <<builder, arrays, connection, filePath, section>>
       ELSE IF inp.read_mode
       THEN LET r == LoadLines(cls, ObjOf(1), section, disk[inp.path])
            IN  /\ section' = r.section
                /\ last' = Call("construct", NoArg, NoArg, inp.path,
                                IF r.res = "true" THEN "ok" ELSE r.res, NoRet)
                /\ IF r.res = "true"
                   THEN /\ SetObj(1, r)
                        /\ filePath' = [filePath EXCEPT ![1] = inp.path]
                        /\ pc' = "constructed"
                   ELSE /\ pc' = "failed"
                        /\ UNCHANGED <<builder, arrays, connection, filePath>>
       ELSE /\ filePath' = [filePath EXCEPT ![1] = inp.path]
            /\ last' = Call("construct", NoArg, NoArg, inp.path, "ok", NoRet)
            /\ pc' = "constructed"
            /\ UNCHANGED <<builder, arrays, connection, section>>
    /\ UNCHANGED <<cls, disk, pending, inp, loads>>

CtorLoad == pc = "constructed" /\ \E p \in Paths : LoadIniFile(1, p)

NextCtor == Construct \/ CtorLoad

SpecCtor == InitCtor /\ [][NextCtor]_vars

(***************************************************************************)
(* Properties.                                                             *)
(***************************************************************************)
\* the raw entry name r ends in "[]"; the name without that suffix
HasSuffix(r) == Len(r) >= 2 /\ r[Len(r) - 1] = "[" /\ r[Len(r)] = "]"
DropSuffix(r) == SubSeq(r, 1, Len(r) - 2)
BaseName(k) == IF HasSuffix(k) THEN DropSuffix(k) ELSE k

\* the paths S/K for which section S holds a raw entry K[]
RawArrayPaths(b) ==
    UNION {{Qualified(s, DropSuffix(r)) : r \in {x \in DOMAIN b[s] : HasSuffix(x)}} :
           s \in DOMAIN b}

\* the object after the step
ObjOfNext(i) == Obj(builder'[i], arrays'[i], connection'[i])

\* C1: in IniParserX, in every reachable state, a path S/K is registered in
\* ArrayIndex if and only if section S of the Document holds a raw entry K[].
C1_ArrayIndexMatchesRawEntries ==
    cls = "IniParserX" => DOMAIN arrays[1] = RawArrayPaths(builder[1])

\* C2: remove_array(S,K) with is_array(S,K) true, K with or without the []
\* suffix, removes S/K from ArrayIndex and the raw K[] entry from section S,
\* and S if it became empty; with is_array(S,K) false it fails with KeyNotArray.
C2_RemoveArrayRemovesBoth ==
    [][last'.op = "remove_array" =>
          LET S == last'.sec
              K == last'.key
          IN  IF is_array2(arrays[1], S, K)
              THEN /\ last'.res = "ok"
                   /\ ~is_array2(arrays'[1], S, K)
                   /\ Qualified(S, BaseName(K)) \notin DOMAIN arrays'[1]
                   /\ S \in DOMAIN builder'[1] =>
                          /\ BaseName(K) \o <<"[", "]">> \notin DOMAIN builder'[1][S]
                          /\ DOMAIN builder'[1][S] # {}
              ELSE last'.res = "KeyNotArray"]_vars

\* C3: in IniParserX, after add_array(S,K,E) has succeeded, value("S/K"),
\* value(S,K) and operator[]("S/K") each fail with KeyIsArray.
C3_ScalarAccessOfArrayIsKeyIsArray ==
    [][(/\ last.op = "add_array" /\ last.res = "ok"
        /\ last'.op \in {"value", "operator[]"}
        /\ \/ last'.sec = last.sec /\ last'.key = last.key
           \/ last'.sec = NoArg /\ last'.key = Qualified(last.sec, last.key))
       => last'.res = "KeyIsArray"]_vars

\* C4: for S/K that does not exist (K without []), add_key(S,K,V) succeeds,
\* creates section S, and right afterwards include("S/K") is true and
\* value(S,K) returns V; in IniParser and in IniParserX.
C4_AddKeyThenVisible ==
    [][(/\ last'.op = "add_key"
        /\ FindBrackets(last'.key) = NPOS
        /\ ~include(builder[1], Qualified(last'.sec, last'.key)))
       => /\ last'.res = "ok"
          /\ last'.sec \in all_sections(builder'[1])
          /\ include(builder'[1], Qualified(last'.sec, last'.key))
          /\ value2(cls, ObjOfNext(1), last'.sec, last'.key).res = "ok"
          /\ value2(cls, ObjOfNext(1), last'.sec, last'.key).ret = last'.arg]_vars

\* no section of the Document of object 1 has zero keys
NoEmptySection == \A s \in DOMAIN builder[1] : DOMAIN builder[1][s] # {}

\* a remove_key that succeeds on the only key of a section removes the
\* section: all_sections() no longer contains it and include(section) is false
RemoveLastKeyRemovesSection ==
    [][(/\ last'.op = "remove_key" /\ last'.res = "ok"
        /\ last'.sec \in DOMAIN builder[1]
        /\ DOMAIN builder[1][last'.sec] = {last'.key})
       => /\ last'.sec \notin all_sections(builder'[1])
          /\ ~include(builder'[1], last'.sec)]_vars

\* the same, include(section) being false for a section name without '/'
RemoveLastKeyRemovesPlainSection ==
    [][(/\ last'.op = "remove_key" /\ last'.res = "ok"
        /\ last'.sec \in DOMAIN builder[1]
        /\ DOMAIN builder[1][last'.sec] = {last'.key})
       => /\ last'.sec \notin all_sections(builder'[1])
          /\ Find(last'.sec, "/") = NPOS => ~include(builder'[1], last'.sec)]_vars

C7_LoadStartsInEmptySection ==
    [][(/\ last'.op = "load_ini_file" /\ loads' = loads + 1
        /\ last'.arg \in DOMAIN disk)
       => LET r == LoadLines(cls, ObjOf(1), <<>>, disk[last'.arg])
          IN  /\ builder'[1] = r.builder
              /\ arrays'[1] = r.arrays]_vars

\* leading and trailing spaces removed
TrimSpaces(s) ==
    LET idx == {i \in 1..Len(s) : s[i] # " "}
    IN  IF idx = {} THEN <<>>
        ELSE SubSeq(s, CHOOSE i \in idx : \A j \in idx : i <= j,
                       CHOOSE i \in idx : \A j \in idx : i >= j)

\* index of the first c in s, 0 when there is none
FirstIndex(s, c) ==
    IF \E i \in 1..Len(s) : s[i] = c
    THEN CHOOSE i \in 1..Len(s) : s[i] = c /\ \A j \in 1..(i - 1) : s[j] # c
    ELSE 0

\* the text before the first '='
TextBeforeEq(l) == SubSeq(l, 1, FirstIndex(l, "=") - 1)

\* the text after the first '=' up to the first ';' after it
TextAfterEq(l) ==
    LET rest == SubSeq(l, FirstIndex(l, "=") + 1, Len(l))
        semi == FirstIndex(rest, ";")
    IN  IF semi = 0 THEN rest ELSE SubSeq(rest, 1, semi - 1)

IsAssignmentLine(l) == FirstIndex(l, "=") # 0 /\ l[1] # ";"

\* C9: for every line that does not start with ';' and contains '=', the
\* stored key is the text before the first '=' and the stored value the text
\* after it up to the first ';' after that '=', both without leading and
\* trailing spaces.  (Stated for the lines the load accepts.)
C9_KeyAndValueOfAssignment ==
    (pc = "loaded" /\ IsAssignmentLine(TheLine) /\ last.res = "true")
    => builder[1] = [s \in {LineSection} |->
                        [k \in {TrimSpaces(TextBeforeEq(TheLine))} |->
                            TrimSpaces(TextAfterEq(TheLine))]]

\* C10: load_ini_file on a readable file returns true and raises no error,
\* whatever the file holds.
C10_LoadNeverThrows == pc = "loaded" => last.res = "true"

\* the (section, key, value) triples of a Document
Triples(b) == UNION {{<<s, k, b[s][k]>> : k \in DOMAIN b[s]} : s \in DOMAIN b}

\* C6: round trip: loading a text, saving it and loading the saved text into
\* a fresh parser yields the same (section, key, value) triples as loading
\* the text and, in IniParserX, the same arrays with the same elements in
\* the same order.  (Stated for the texts that load and save without error.)
C6_RoundTrip ==
    pc = "rt_done" =>
        /\ last.res = "true"
        /\ Triples(builder[2]) = Triples(builder[1])
        /\ cls = "IniParserX" => arrays[2] = arrays[1]

\* C8: for two parser objects of one class loading two files, under every
\* interleaving of their per-line steps (one load entirely before the other
\* included), each object ends with the Document it gets loading alone.
\* (Stated for the loads that return true.)
C8_LoadsDoNotInterfere ==
    \A i \in Inst :
        pc[i] = "done" =>
            builder[i] = LoadLines(cls, EmptyObj, <<>>, disk[inp[i]]).builder

\* C11: after add_array(S,K,E) has succeeded, is_array(S,K) is true,
\* size_of_array(S,K) and size_of_array("S/K") return |E|, value_of_array(S,K,i)
\* returns E[i] for every i < |E|, and fails with an error for i >= |E|.
C11_AddArrayThenReadable ==
    (cls = "IniParserX" /\ last.op = "add_array" /\ last.res = "ok") =>
        LET S == last.sec
            K == last.key
            E == last.arg
            o == ObjOf(1)
        IN  /\ is_array2(o.arrays, S, K)
            /\ size_of_array2(o, S, K).res = "ok"
            /\ size_of_array2(o, S, K).ret = Len(E)
            /\ size_of_array1(o, Qualified(S, K)).res = "ok"
            /\ size_of_array1(o, Qualified(S, K)).ret = Len(E)
            /\ \A i \in 0..(Len(E) - 1) :
                   /\ value_of_array2(o, S, K, i).res = "ok"
                   /\ value_of_array2(o, S, K, i).ret = E[i + 1]
            /\ \A i \in Len(E)..(Len(E) + 1) : value_of_array2(o, S, K, i).res # "ok"

\* the scalar form or the array form of S/K exists: a key K or a raw entry
\* K[] in section S, or S/K in ArrayIndex (K without the suffix)
ExistsInSomeForm(o, S, K) ==
    \/ include(o.builder, Qualified(S, BaseName(K)))
    \/ include(o.builder, Qualified(S, BaseName(K) \o <<"[", "]">>))
    \/ Qualified(S, BaseName(K)) \in DOMAIN o.arrays

\* C12: add_array(S,K,E) fails with KeyAlreadyExist and leaves the Document
\* and the ArrayIndex unchanged whenever the scalar form or the array form of
\* S/K already exists, K with or without the [] suffix; so a second add_array
\* for the same S and K never succeeds.
C12_AddArrayRejectsExisting ==
    [][(last'.op = "add_array" /\ ExistsInSomeForm(ObjOf(1), last'.sec, last'.key))
       => /\ last'.res = "KeyAlreadyExist"
          /\ builder'[1] = builder[1]
          /\ arrays'[1] = arrays[1]]_vars

\* the Document b holds key K in section S
KeyExists(b, S, K) == S \in DOMAIN b /\ K \in DOMAIN b[S]

\* an add_key(S,K,V) step fails as C13 says: CanNotArray when K contains
\* "[]", otherwise KeyAlreadyExist when S/K exists, the object unchanged
AddKeyFailsAsStated ==
    LET S == last'.sec
        K == last'.key
    IN  /\ FindBrackets(K) # NPOS =>
              last'.res = "CanNotArray" /\ ObjOfNext(1) = ObjOf(1)
        /\ (FindBrackets(K) = NPOS /\ KeyExists(builder[1], S, K)) =>
              last'.res = "KeyAlreadyExist" /\ ObjOfNext(1) = ObjOf(1)

\* C13, as stated: add_key(S,K,V) fails with CanNotArray whenever K contains
\* "[]" (in any state), and otherwise with KeyAlreadyExist whenever S/K
\* already exists; in both cases the existing value is not overwritten and
\* the Document is unchanged.
C13_AddKeyFailures == [][last'.op = "add_key" => AddKeyFailsAsStated]_vars

\* C13, amended: the same for every section name S that contains no '/'.
C13_AddKeyFailuresAmended ==
    [][(last'.op = "add_key" /\ Find(last'.sec, "/") = NPOS) => AddKeyFailsAsStated]_vars

\* C13 witness: add_key(s,k,V) has just failed with KeyAlreadyExist on a
\* key that holds another value than V, and still holds it
C13_Witness ==
    /\ last.op = "add_key" /\ last.res = "KeyAlreadyExist"
    /\ Find(last.sec, "/") = NPOS
    /\ KeyExists(builder[1], last.sec, last.key)
    /\ builder[1][last.sec][last.key] # last.arg

\* C14: in IniParserX, after add_array(S,K,E) has succeeded, add_key(S,K,V)
\* fails with KeyAlreadyExist; and before any load, no section S holds a
\* scalar key K while an array is registered as S/K.
C14_NoScalarBesideArray ==
    /\ [][(/\ last.op = "add_array" /\ last.res = "ok"
            /\ last'.op = "add_key"
            /\ last'.sec = last.sec
            /\ last'.key = BaseName(last.key))
           => last'.res = "KeyAlreadyExist"]_vars
    /\ [](loads = 0 =>
             \A S \in DOMAIN builder[1] : \A K \in DOMAIN builder[1][S] :
                 HasSuffix(K) \/ Qualified(S, K) \notin DOMAIN arrays[1])

\* C15: a load_ini_file(B) that follows an earlier load on the same parser
\* leaves the Document, and in IniParserX the ArrayIndex, that loading B
\* into a fresh parser would yield (the fresh parser reading from the same
\* current section); so loading a file twice is the same as loading it once.
C15_LoadOverwrites ==
    [][(/\ last'.op = "load_ini_file" /\ loads >= 1 /\ loads' = loads + 1
        /\ last'.arg \in DOMAIN disk /\ last'.res = "true")
       => LET r == LoadLines(cls, EmptyObj, section, disk[last'.arg])
          IN  /\ builder'[1] = r.builder
              /\ arrays'[1] = r.arrays]_vars

\* the errors of the library
LibraryErrors == {"KeyNotFound", "KeyAlreadyExist", "KeyIsArray", "KeyNotArray", "CanNotArray"}

\* C16: every call of value, operator[], all_keys, add_key, remove_key,
\* add_array, remove_array, size_of_array or value_of_array that fails with
\* KeyNotFound, KeyAlreadyExist, KeyIsArray, KeyNotArray or CanNotArray
\* leaves the Document, the ArrayIndex and the ConnectionIndex as they were.
C16_FailedCallChangesNothing ==
    [][last'.res \in LibraryErrors => ObjOfNext(1) = ObjOf(1)]_vars

\* C16 witness: operator[] has just failed with KeyIsArray on a parser whose
\* section s holds an array and no key k
C16_Witness ==
    /\ last.op \in {"operator[]", "operator[]="} /\ last.res = "KeyIsArray"
    /\ Qualified(<<"s">>, <<"k">>) \in DOMAIN arrays[1]
    /\ <<"s">> \in DOMAIN builder[1]
    /\ <<"k">> \notin DOMAIN builder[1][<<"s">>]

\* the lines C17 describes for one key r of section S: one `K[] = element`
\* line per element when r is the raw entry K[] of a registered array S/K,
\* the line `r = value` otherwise
ClaimedKeyLines(o, S, r) ==
    IF HasSuffix(r) /\ Qualified(S, DropSuffix(r)) \in DOMAIN o.arrays
    THEN LET E == o.arrays[Qualified(S, DropSuffix(r))]
         IN  [idx \in 1..Len(E) |-> AssignLine(r, E[idx])]
    ELSE <<AssignLine(r, o.builder[S][r])>>

RECURSIVE ClaimedKeysLines(_, _, _)
ClaimedKeysLines(o, S, keys) ==
    IF keys = <<>> THEN <<>>
    ELSE ClaimedKeyLines(o, S, Head(keys)) \o ClaimedKeysLines(o, S, Tail(keys))

\* header, key lines and a blank line for each section
RECURSIVE ClaimedFile(_, _, _)
ClaimedFile(o, secs, ko) ==
    IF secs = <<>> THEN <<>>
    ELSE <<<<"[">> \o Head(secs) \o <<"]">>>>
         \o ClaimedKeysLines(o, Head(secs), ko[Head(secs)])
         \o <<<<>>>> \o ClaimedFile(o, Tail(secs), ko)

\* C17: in IniParserX, in every reachable state, save_ini_file to a writable
\* destination raises no error and writes, for each section, its header, one
\* `key = value` line per scalar key, one `key[] = element` line per element
\* of each registered array, in stored order, and a blank line.
C17_SaveNeverThrows ==
    cls = "IniParserX" =>
        \A so \in Perms(DOMAIN builder[1]) : \A ko \in KeyOrders(builder[1]) :
            LET w == SectionsLines(cls, ObjOf(1), so, ko)
            IN  /\ w.res = "ok"
                /\ w.lines = ClaimedFile(ObjOf(1), so, ko)

\* C18: for the qualified form "S/K" and for the form (S, K), K with or
\* without the [] suffix: is_array is true iff S/K with the suffix stripped
\* is in ArrayIndex, and size_of_array with the same arguments returns the
\* element count when it is, and fails with KeyNotArray when it is not.
C18_IsArrayAndSizeAgree ==
    [][last'.op = "size_of_array" =>
          LET path == IF last'.sec = NoArg THEN BaseName(last'.key)
                      ELSE Qualified(last'.sec, BaseName(last'.key))
              isarr == IF last'.sec = NoArg THEN is_array1(arrays[1], last'.key)
                       ELSE is_array2(arrays[1], last'.sec, last'.key)
          IN  /\ isarr <=> path \in DOMAIN arrays[1]
              /\ IF isarr
                 THEN last'.res = "ok" /\ last'.ret = Len(arrays[1][path])
                 ELSE last'.res = "KeyNotArray"]_vars

\* the section that is current when line n of a file is read by a fresh
\* IniParserX
SectionBefore(lines, n) ==
    LoadLines("IniParserX", EmptyObj, <<>>, SubSeq(lines, 1, n - 1)).section

\* the key of assignment line l as C9 gives it
ClaimedKey(l) == TrimSpaces(TextBeforeEq(l))

\* line n of the file is an assignment `K[] = v` read in section S
IsArrayLine(lines, n, S, K) ==
    /\ IsAssignmentLine(lines[n])
    /\ ClaimedKey(lines[n]) = K \o <<"[", "]">>
    /\ SectionBefore(lines, n) = S

\* the trimmed values of the lines `K[] = v` read in section S, from line n on
RECURSIVE ArrayValues(_, _, _, _)
ArrayValues(lines, n, S, K) ==
    IF n > Len(lines) THEN <<>>
    ELSE IF IsArrayLine(lines, n, S, K)
    THEN <<TrimSpaces(TextAfterEq(lines[n]))>> \o ArrayValues(lines, n + 1, S, K)
    ELSE ArrayValues(lines, n + 1, S, K)

\* the pairs (S, K) for which the file holds a line `K[] = v` read in section S
ArrayPairs(lines) ==
    {<<SectionBefore(lines, n), DropSuffix(ClaimedKey(lines[n]))>> :
        n \in {m \in 1..Len(lines) :
                  IsAssignmentLine(lines[m]) /\ HasSuffix(ClaimedKey(lines[m]))}}

\* object 1 holds the arrays of the file as C19 says
ArraysAsInFile(lines) ==
    /\ DOMAIN arrays[1] = {Qualified(c[1], c[2]) : c \in ArrayPairs(lines)}
    /\ \A c \in ArrayPairs(lines) :
          LET E == ArrayValues(lines, 1, c[1], c[2])
          IN  /\ arrays[1][Qualified(c[1], c[2])] = E
              /\ KeyExists(builder[1], c[1], c[2] \o <<"[", "]">>)
              /\ builder[1][c[1]][c[2] \o <<"[", "]">>] = E[Len(E)]

\* C19: after loading a file into a fresh IniParserX, for every section S and
\* key name K, ArrayIndex[S/K] is the sequence of the trimmed values of the
\* lines `K[] = v` read while S was the current section, in file order, and
\* the raw K[] entry of S holds the last of them.  (Stated for the files the
\* load accepts.)
C19_ArraysAsInFile ==
    (pc = "loaded" /\ cls = "IniParserX" /\ last.res = "true") => ArraysAsInFile(inp)

\* the text of s up to its first c, all of s when there is none
UpToFirst(s, c) == IF FirstIndex(s, c) = 0 THEN s ELSE SubSeq(s, 1, FirstIndex(s, c) - 1)

\* the readings of "the text between the first '[' and the first ']'" of a
\* header line: the text between the two when the ']' comes second; without
\* a ']', the rest of the line; with the ']' first, nothing, the text between
\* the two, or the text after the '[' up to the next ']'
ClaimedHeaderNames(l) ==
    LET a == FirstIndex(l, "[")
        b == FirstIndex(l, "]")
        rest == SubSeq(l, a + 1, Len(l))
    IN  IF b > a THEN {SubSeq(l, a + 1, b - 1)}
        ELSE IF b = 0 THEN {rest}
        ELSE {<<>>, SubSeq(l, b + 1, a - 1), UpToFirst(rest, "]")}

\* reading the line of SpecLine changed nothing
LineChangedNothing ==
    /\ builder[1] = EmptyMap /\ arrays[1] = EmptyMap /\ connection[1] = EmptyMap
    /\ section = LineSection

\* C20: a line whose first character is ';' changes neither the Document nor
\* the current section; otherwise a line containing '=' is stored as an
\* assignment under the current section and leaves the current section
\* unchanged; otherwise a line containing '[' changes only the current
\* section, to the text between the first '[' and the first ']', and stores
\* nothing; any other line changes nothing.  (Stated for the lines the load
\* accepts, and, in IniParserX, for the headers without a '.', which name no
\* nested section.)
C20_LineClassification ==
    (pc = "loaded" /\ last.res = "true") =>
        IF Len(TheLine) > 0 /\ TheLine[1] = ";" THEN LineChangedNothing
        ELSE IF FirstIndex(TheLine, "=") # 0
        THEN /\ DOMAIN builder[1] = {LineSection}
             /\ Cardinality(DOMAIN builder[1][LineSection]) = 1
             /\ section = LineSection
        ELSE IF FirstIndex(TheLine, "[") # 0
        THEN (cls = "IniParser" \/ FirstIndex(TheLine, ".") = 0) =>
                 /\ builder[1] = EmptyMap /\ arrays[1] = EmptyMap
                 /\ connection[1] = EmptyMap
                 /\ section \in ClaimedHeaderNames(TheLine)
        ELSE LineChangedNothing

\* an operator[] step behaves as C21 says; arrays tells whether a key
\* registered in ArrayIndex is set apart (IniParserX: KeyIsArray)
IndexAsStated(arraysApart) ==
    LET key == last'.key
        x == Find(key, "/")
        S == Substr(key, 0, x)
        K == SubstrFrom(key, x + 1)
    IN  IF x = NPOS \/ S \notin DOMAIN builder[1]
        THEN last'.res = "KeyNotFound" /\ ObjOfNext(1) = ObjOf(1)
        ELSE IF arraysApart /\ cls = "IniParserX" /\ is_array1(arrays[1], key)
        THEN last'.res = "KeyIsArray" /\ ObjOfNext(1) = ObjOf(1)
        ELSE /\ last'.res = "ok"
             /\ KeyExists(builder'[1], S, K)
             /\ last'.op = "operator[]" =>
                    /\ builder'[1][S][K] = IF K \in DOMAIN builder[1][S]
                                           THEN builder[1][S][K] ELSE <<>>
                    /\ last'.ret = builder'[1][S][K]
             /\ last'.op = "operator[]=" =>
                    /\ include(builder'[1], key)
                    /\ LET r == value1(cls, ObjOfNext(1), key)
                       IN  r.res = "ok" /\ r.ret = last'.arg

\* C21, as stated: operator[]("S/K") on an existing section S returns a
\* writable handle for K, creating K with an empty value if it was absent,
\* so that after parser["S/K"] = v include("S/K") is true and value("S/K")
\* returns v; when S is absent or the argument has no '/', it fails with
\* KeyNotFound and creates nothing.
C21_IndexCreatesKey ==
    [][last'.op \in {"operator[]", "operator[]="} => IndexAsStated(FALSE)]_vars

\* C21, amended: the same, except that in IniParserX operator[]("S/K") on a
\* key registered in ArrayIndex fails with KeyIsArray and creates nothing.
C21_IndexCreatesKeyAmended ==
    [][last'.op \in {"operator[]", "operator[]="} => IndexAsStated(TRUE)]_vars

\* C21 witness: operator[]("s/k") has just created key k of section s with
\* an empty value
C21_Witness ==
    /\ last.op = "operator[]" /\ last.res = "ok"
    /\ last.key = Qualified(<<"s">>, <<"k">>)
    /\ KeyExists(builder[1], <<"s">>, <<"k">>)
    /\ builder[1][<<"s">>][<<"k">>] = <<>>
    /\ last.ret = <<>>

\* the line is a header `[name]` whose name holds no bracket
IsHeaderLine(l) ==
    /\ Len(l) >= 2 /\ l[1] = "[" /\ l[Len(l)] = "]"
    /\ \A i \in 2..(Len(l) - 1) : l[i] \notin {"[", "]", "="}

HeaderText(l) == SubSeq(l, 2, Len(l) - 1)

\* the assignment lines that may follow a header
LaterLines ==
    {l \in UNION {[1..n -> LineChars] : n \in 0..MaxLaterLen} : IsAssignmentLine(l)}

\* an assignment line read in the state reached writes one key, in the
\* current section, and touches neither the relations nor the section
LaterLineWritesOneKey(l) ==
    LET r == XParseInline(ObjOf(1), section, l)
    IN  r.res = "true" =>
            /\ DOMAIN r.builder = {section}
            /\ Cardinality(DOMAIN r.builder[section]) = 1
            /\ r.connection = connection[1]
            /\ r.section = section

\* the same header read again after an assignment line leaves the keys and
\* the arrays as that line made them
HeaderAgainKeepsKeys(l) ==
    LET r == XParseInline(ObjOf(1), section, l)
        h == XParseInline(Obj(r.builder, r.arrays, r.connection), r.section, TheLine)
    IN  r.res = "true" => h.builder = r.builder /\ h.arrays = r.arrays

\* C22: in IniParserX a header `[.child]` read while the current section is
\* P appends "child" to ConnectionIndex[P] and makes the current section P
\* followed by ".child"; a header `[a.b]` appends "b" to ConnectionIndex["a"]
\* and makes the current section "a.b"; a header without '.' records
\* nothing; no header adds, copies or removes a key, and each later
\* assignment line writes exactly one key in exactly the current section.
C22_HeadersOnlyTrackRelations ==
    (pc = "loaded" /\ cls = "IniParserX" /\ IsHeaderLine(TheLine)) =>
        LET name == HeaderText(TheLine)
            P == LineSection
            d == FirstIndex(name, ".")
            child == SubSeq(name, d + 1, Len(name))
        IN  /\ last.res = "true"
            /\ builder[1] = EmptyMap /\ arrays[1] = EmptyMap
            /\ IF d = 0 THEN connection[1] = EmptyMap /\ section = name
               ELSE IF d = 1
               THEN connection[1] = [x \in {P} |-> <<child>>] /\ section = P \o name
               ELSE /\ connection[1] = [x \in {SubSeq(name, 1, d - 1)} |-> <<child>>]
                    /\ section = name
            /\ \A l \in LaterLines : LaterLineWritesOneKey(l) /\ HeaderAgainKeepsKeys(l)

\* C22 witness: the header [.k] was read in section s
C22_Witness ==
    /\ pc = "loaded" /\ cls = "IniParserX"
    /\ inp = <<HeaderS, <<"[", ".", "k", "]">>>>
    /\ section = <<"s", ".", "k">>
    /\ connection[1] = [x \in {<<"s">>} |-> <<<<"k">>>>]
    /\ builder[1] = EmptyMap

\* C23: load_ini_file on a path that cannot be opened returns false and
\* leaves the Document, ArrayIndex, ConnectionIndex and the recorded file
\* path unchanged; the constructor with read_mode true on such a path fails
\* with FileLoadedError; the constructor with read_mode false never fails,
\* records the path and yields an empty Document.
C23_UnopenablePath ==
    [][/\ (last'.op = "load_ini_file" /\ last'.arg \notin DOMAIN disk) =>
            /\ last'.res = "false"
            /\ ObjOfNext(1) = ObjOf(1)
            /\ filePath' = filePath
       /\ (pc = "new" /\ inp.read_mode /\ inp.path \notin DOMAIN disk) =>
            last'.op = "construct" /\ last'.res = "FileLoadedError" /\ pc' = "failed"
       /\ (pc = "new" /\ ~inp.read_mode) =>
            /\ last'.op = "construct" /\ last'.res = "ok" /\ pc' = "constructed"
            /\ filePath'[1] = inp.path
            /\ builder'[1] = EmptyMap]_vars

\* C23 witness: a parser that holds the keys of a.ini was asked to load the
\* missing path
C23_Witness ==
    /\ last.op = "load_ini_file" /\ last.res = "false" /\ last.arg = MissingPath
    /\ filePath[1] = "a.ini"
    /\ builder[1] # EmptyMap

====
